---- MODULE Spec2Model ----
(***************************************************************************)
(* kubernetes-prometheus-exporter.py: a scheduler thread that polls the    *)
(* Kubernetes job list, admits finished labelled jobs to JOB_CACHE, builds *)
(* three metric families and publishes them in the shared `metrics` dict;  *)
(* and the HTTP server thread, whose Expositor.collect() reads that dict.  *)
(***************************************************************************)
EXTENDS Integers, Sequences, FiniteSets, TLC

(* ------------------------------ bounds -------------------------------- *)

\* scrape() is called at most MaxCycles times in a behaviour of Spec
MaxCycles == 3
\* and at most MaxPolls times in a behaviour of SpecPolls
MaxPolls == 2
\* length of the job lists handed to the aggregator functions in SpecAgg
MaxLen == 3

(* ------------------------- program constants -------------------------- *)

\* Python's None in an optional integer or timestamp field
None == -1
\* START: the process start time; creation timestamps are compared with it
START == 1
JOB_LABEL == "app"
DURATION_BUCKETS == <<10, 30, 60, 180, 480, 1200, 3600, 7200>>

\* DURATION_BUCKETS + ["+Inf"]: a bucket is a number or the string "+Inf"
duration_buckets ==
    [i \in 1..(Len(DURATION_BUCKETS) + 1) |->
        IF i <= Len(DURATION_BUCKETS)
        THEN [inf |-> FALSE, num |-> DURATION_BUCKETS[i]]
        ELSE [inf |-> TRUE, num |-> 0]]

\* str(bucket)
BucketStrings == <<"10", "30", "60", "180", "480", "1200", "3600", "7200">>

Str(bucket) ==
    IF bucket.inf THEN "+Inf"
    ELSE BucketStrings[CHOOSE i \in 1..Len(DURATION_BUCKETS) :
                           DURATION_BUCKETS[i] = bucket.num]

\* the bucket test written with <=
LessThanOrEqualFloat(duration, bucket) == bucket.inf \/ duration <= bucket.num

\* duration < float(bucket); float("+Inf") exceeds every duration
LessThanFloat(duration, bucket) == bucket.inf \/ duration < bucket.num

MetricNames ==
    {"kubernetes_jobs_total", "kubernetes_job_errors_total",
     "kubernetes_job_duration_seconds"}

(* ----------------------- inputs: fetched job records ------------------- *)

JobNames == {"j1", "j2"}
\* the names the API server returns in the behaviours of Spec
ServedNames == {"j1"}

\* creation timestamps: before START, at START, after START
CreationTimes == {START - 1, START, START + 1}
\* metadata.labels: without the classification label, or with value a or b
LabelSets == {[k \in {"tier"} |-> "x"],
              [k \in {JOB_LABEL} |-> "a"],
              [k \in {JOB_LABEL} |-> "b"]}
\* (start_time, completion_time): unset, or a run of 5 seconds
TimePairs == {<<None, None>>, <<100, 105>>}

Job(n, c, l, a, s, t) ==
    [name |-> n, creation_timestamp |-> c, labels |-> l, active |-> a,
     succeeded |-> s, start_time |-> t[1], completion_time |-> t[2]]

\* the records the API can return for a name: a job whose pod is running has
\* not succeeded, and completion_time is set only on a job that has succeeded
Records(n) ==
    {r \in {Job(n, c, l, a, s, t) : c \in CreationTimes, l \in LabelSets,
                                   a \in {None, 1}, s \in {None, 1},
                                   t \in TimePairs} :
        /\ r.active = 1 => r.succeeded = None
        /\ r.succeeded = None => r.completion_time = None}

\* the names in the order in which the API server lists them
NameOrder == <<"j1", "j2">>

\* the lists list_namespaced_job can return over a set of names: each name
\* at most once, in name order
RECURSIVE ListsFrom(_, _)
ListsFrom(i, names) ==
    IF i > Len(NameOrder) THEN {<<>>}
    ELSE LET rest == ListsFrom(i + 1, names)
         IN IF NameOrder[i] \in names
            THEN rest \cup {<<r>> \o t : r \in Records(NameOrder[i]), t \in rest}
            ELSE rest

ApiException == [ok |-> FALSE, items |-> <<>>]
ApiResults(names) ==
    {ApiException} \cup {[ok |-> TRUE, items |-> l] : l \in ListsFrom(1, names)}

(* ------------------------------- state --------------------------------- *)

VARIABLES
    pc,           \* position of the main thread
    cycle,        \* number of scrape() calls started
    JOB_CACHE,    \* the dict, as the sequence of its values in insertion order
    fetch_failed, \* retrieve_jobs took its except branch in this cycle
    jobs,         \* scrape's local: the list retrieve_jobs returned
    built,        \* scrape's locals: the three families built in this cycle
    metrics,      \* the shared dict: metric name -> family
    serving,      \* start_http_server has been called
    rd_pc,        \* position of a collect() call in the server thread
    rd_keys,      \* collect(): the keys of sorted(metrics) not yet yielded
    rd_out,       \* collect(): the families yielded so far
    seen,         \* history: what `data` held for each name in this cycle
    admitted,     \* history: the names cache_job inserted in this cycle
    prev_active   \* history: the names `data` held with active == 1 in the
                  \* cycle before this one

vars == <<pc, cycle, JOB_CACHE, fetch_failed, jobs, built, metrics, serving,
          rd_pc, rd_keys, rd_out, seen, admitted, prev_active>>

hist == <<seen, admitted, prev_active>>

NoFamilies == [k \in {} |-> 0]

(* ---------------------------- job cache -------------------------------- *)

CacheNames(cache) == {cache[i].name : i \in 1..Len(cache)}

CacheGet(cache, n) == cache[CHOOSE i \in 1..Len(cache) : cache[i].name = n]

\* cache_job without its membership test: a later record replaces the stored one
cache_job_overwrite(cache, job) ==
    IF job.active = 1 THEN cache
    ELSE IF JOB_LABEL \notin DOMAIN job.labels THEN cache
    ELSE IF job.name \in CacheNames(cache)
    THEN [i \in 1..Len(cache) |->
             IF cache[i].name = job.name THEN job ELSE cache[i]]
    ELSE Append(cache, job)

\* cache_job copying the status of a fetched job into the record stored under
\* its name
cache_job_refresh_status(cache, job) ==
    IF job.name \notin CacheNames(cache)
    THEN IF job.active = 1 THEN cache
         ELSE IF JOB_LABEL \notin DOMAIN job.labels THEN cache
         ELSE Append(cache, job)
    ELSE [i \in 1..Len(cache) |->
             IF cache[i].name = job.name
             THEN [cache[i] EXCEPT !.succeeded = job.succeeded,
                                   !.start_time = job.start_time,
                                   !.completion_time = job.completion_time]
             ELSE cache[i]]

\* cache_job without its test of status.active
cache_job_any_status(cache, job) ==
    IF job.name \notin CacheNames(cache)
    THEN IF JOB_LABEL \notin DOMAIN job.labels THEN cache
         ELSE Append(cache, job)
    ELSE cache

\* cache_job
cache_job(cache, job) ==
    IF job.name \notin CacheNames(cache)
    THEN IF job.active = 1 THEN cache
         ELSE IF JOB_LABEL \notin DOMAIN job.labels THEN cache
         ELSE Append(cache, job)
    ELSE cache

\* for job in data: cache_job(job)
RECURSIVE CacheAll(_, _)
CacheAll(cache, data) ==
    IF data = <<>> THEN cache
    ELSE CacheAll(cache_job(cache, Head(data)), Tail(data))

\* the skip test of retrieve_jobs written with <=
EligibleAfter(job) == ~(job.creation_timestamp <= START)

\* the negation of the skip test `creation_timestamp < START`
Eligible(job) == ~(job.creation_timestamp < START)

\* the second loop of retrieve_jobs
SelectJobs(cache) == SelectSeq(cache, Eligible)

\* retrieve_jobs returning only the jobs of this poll's list
retrieve_jobs_fetched_only(cache, result) ==
    LET data == IF result.ok THEN result.items ELSE <<>>
    IN [data |-> data,
        cache |-> CacheAll(cache, data),
        jobs |-> SelectJobs(CacheAll(<<>>, data))]

\* retrieve_jobs selecting the jobs before it caches the fetched ones
retrieve_jobs_select_first(cache, result) ==
    LET data == IF result.ok THEN result.items ELSE <<>>
    IN [data |-> data,
        cache |-> CacheAll(cache, data),
        jobs |-> SelectJobs(cache)]

\* retrieve_jobs on a dict that is emptied at the start of every poll
retrieve_jobs_fresh_cache(cache, result) ==
    LET data == IF result.ok THEN result.items ELSE <<>>
        after == CacheAll(<<>>, data)
    IN [data |-> data, cache |-> after, jobs |-> SelectJobs(after)]

\* retrieve_jobs on the dict `cache` and the outcome of the list call: the
\* list `data`, the dict afterwards and the list returned
retrieve_jobs(cache, result) ==
    LET data == IF result.ok THEN result.items ELSE <<>>
        after == CacheAll(cache, data)
    IN [data |-> data, cache |-> after, jobs |-> SelectJobs(after)]

\* what `data` holds for a name: no record ("absent"), a record with
\* active == 1 ("active"), a record with active != 1 and without the
\* classification label ("nolabel"), a labelled record created at or after
\* START with active != 1 and succeeded == 1 ("done"), or any other labelled
\* record with active != 1 ("other")
Classify(data, n) ==
    IF \A i \in 1..Len(data) : data[i].name # n THEN "absent"
    ELSE LET r == data[CHOOSE i \in 1..Len(data) : data[i].name = n]
         IN IF r.active = 1 THEN "active"
            ELSE IF JOB_LABEL \notin DOMAIN r.labels THEN "nolabel"
            ELSE IF r.succeeded = 1 /\ r.creation_timestamp >= START THEN "done"
            ELSE "other"

NotSeen == [n \in JobNames |-> "absent"]

(* ----------------------------- aggregator ------------------------------ *)

\* get_app_labels without its membership test: every job opens a group
AddToGroupAlwaysNew(groups, job) ==
    Append(groups, [label |-> job.labels[JOB_LABEL], jobs |-> <<job>>])

\* one iteration of the loop of get_app_labels; groups is the dict `labels`
\* as the sequence of its items in insertion order
AddToGroup(groups, job) ==
    LET app_label == job.labels[JOB_LABEL]
    IN IF \E i \in 1..Len(groups) : groups[i].label = app_label
       THEN [i \in 1..Len(groups) |->
                IF groups[i].label = app_label
                THEN [groups[i] EXCEPT !.jobs = Append(@, job)]
                ELSE groups[i]]
       ELSE Append(groups, [label |-> app_label, jobs |-> <<job>>])

RECURSIVE GroupFrom(_, _)
GroupFrom(groups, js) ==
    IF js = <<>> THEN groups
    ELSE GroupFrom(AddToGroup(groups, Head(js)), Tail(js))

get_app_labels(js) == GroupFrom(<<>>, js)

\* kubernetes_jobs_total: the (len(data), [label]) pairs it yields
kubernetes_jobs_total(js) ==
    LET app_labels == get_app_labels(js)
    IN [i \in 1..Len(app_labels) |->
           [value |-> Len(app_labels[i].jobs), labels |-> <<app_labels[i].label>>]]

\* find_applicable_buckets stopping at the first bucket that applies
find_first_bucket(duration) ==
    LET every == SelectSeq(duration_buckets,
                           LAMBDA bucket : LessThanFloat(duration, bucket))
    IN IF every = <<>> THEN <<>> ELSE <<Head(every)>>

\* find_applicable_buckets: the buckets it yields, in list order
find_applicable_buckets(duration) ==
    SelectSeq(duration_buckets, LAMBDA bucket : LessThanFloat(duration, bucket))

\* completion_time - start_time raises TypeError when either is None
DurationRaises(job) == job.start_time = None \/ job.completion_time = None

Duration(job) == job.completion_time - job.start_time

\* for bucket in find_applicable_buckets(duration): buckets_dict[bucket] += 1
RECURSIVE Increment(_, _)
Increment(buckets_dict, applicable) ==
    IF applicable = <<>> THEN buckets_dict
    ELSE Increment([buckets_dict EXCEPT ![Head(applicable)] = @ + 1],
                   Tail(applicable))

\* the loop over the jobs of one label with `durations = duration`
RECURSIVE AccumulateLast(_, _)
AccumulateLast(acc, js) ==
    IF js = <<>> THEN acc
    ELSE LET duration == Duration(Head(js))
         IN AccumulateLast(
                [buckets_dict |-> Increment(acc.buckets_dict,
                                            find_applicable_buckets(duration)),
                 durations |-> duration],
                Tail(js))

\* the loop over the jobs of one label; acc holds buckets_dict and durations
RECURSIVE Accumulate(_, _)
Accumulate(acc, js) ==
    IF js = <<>> THEN acc
    ELSE LET duration == Duration(Head(js))
         IN Accumulate(
                [buckets_dict |-> Increment(acc.buckets_dict,
                                            find_applicable_buckets(duration)),
                 durations |-> acc.durations + duration],
                Tail(js))

BucketSet == {duration_buckets[i] : i \in 1..Len(duration_buckets)}

\* kubernetes_job_duration_seconds: the (buckets, durations, [app]) triples
\* it yields when no subtraction raises
kubernetes_job_duration_seconds(app_jobs) ==
    LET groups == get_app_labels(app_jobs)
    IN [g \in 1..Len(groups) |->
           LET acc == Accumulate([buckets_dict |-> [b \in BucketSet |-> 0],
                                  durations |-> 0],
                                 groups[g].jobs)
           IN [buckets |-> [i \in 1..Len(duration_buckets) |->
                               <<Str(duration_buckets[i]),
                                 acc.buckets_dict[duration_buckets[i]]>>],
               sum |-> acc.durations,
               labels |-> <<groups[g].label>>]]

\* a metric family object: its name, the scrape() call that constructed it
\* and the samples added with add_metric
Family(name, c, samples) == [name |-> name, cycle |-> c, samples |-> samples]

\* error_jobs without its test of status.succeeded
error_jobs_unfiltered(js) == js

error_jobs(js) == SelectSeq(js, LAMBDA job : job.succeeded # 1)
succeeded_jobs(js) == SelectSeq(js, LAMBDA job : job.succeeded = 1)

\* the dict literal passed to metrics.update
BuildFamilies(js, c) ==
    [k \in MetricNames |->
        IF k = "kubernetes_jobs_total"
        THEN Family(k, c, kubernetes_jobs_total(js))
        ELSE IF k = "kubernetes_job_errors_total"
        THEN Family(k, c, kubernetes_jobs_total(error_jobs(js)))
        ELSE Family(k, c, kubernetes_job_duration_seconds(succeeded_jobs(js)))]

\* the histogram loop of scrape ends in an uncaught TypeError
BuildRaises(js) ==
    \E i \in 1..Len(js) : js[i].succeeded = 1 /\ DurationRaises(js[i])

\* dict.update adding only the keys the dict does not hold yet
UpdateAbsent(d, new) ==
    [k \in DOMAIN d \cup DOMAIN new |-> IF k \in DOMAIN d THEN d[k] ELSE new[k]]

\* dict.update
Update(d, new) ==
    [k \in DOMAIN d \cup DOMAIN new |-> IF k \in DOMAIN new THEN new[k] ELSE d[k]]

\* sorted(metrics) over the metric names
SortedMetricNames ==
    <<"kubernetes_job_duration_seconds", "kubernetes_job_errors_total",
      "kubernetes_jobs_total">>

Sorted(keys) == SelectSeq(SortedMetricNames, LAMBDA k : k \in keys)

(* ------------------------------ actions -------------------------------- *)

\* __main__ calling start_http_server before the first scrape()
InitServing ==
    /\ pc = "scrape"
    /\ cycle = 1
    /\ JOB_CACHE = <<>>
    /\ fetch_failed = FALSE
    /\ jobs = <<>>
    /\ built = NoFamilies
    /\ metrics = NoFamilies
    /\ serving = TRUE
    /\ rd_pc = "idle"
    /\ rd_keys = <<>>
    /\ rd_out = <<>>
    /\ seen = NotSeen
    /\ admitted = {}
    /\ prev_active = {}

\* the state when __main__ is about to call scrape() for the first time
Init ==
    /\ pc = "scrape"
    /\ cycle = 1
    /\ JOB_CACHE = <<>>
    /\ fetch_failed = FALSE
    /\ jobs = <<>>
    /\ built = NoFamilies
    /\ metrics = NoFamilies
    /\ serving = FALSE
    /\ rd_pc = "idle"
    /\ rd_keys = <<>>
    /\ rd_out = <<>>
    /\ seen = NotSeen
    /\ admitted = {}
    /\ prev_active = {}

\* scrape up to the return of retrieve_jobs, given the outcome of the list call
Fetch(result) ==
    /\ pc = "scrape"
    /\ LET r == retrieve_jobs(JOB_CACHE, result)
       IN /\ JOB_CACHE' = r.cache
          /\ jobs' = r.jobs
          /\ seen' = [n \in JobNames |-> Classify(r.data, n)]
          /\ admitted' = CacheNames(r.cache) \ CacheNames(JOB_CACHE)
    /\ fetch_failed' = ~result.ok
    /\ pc' = "build"
    /\ UNCHANGED <<cycle, built, metrics, serving, rd_pc, rd_keys, rd_out,
                   prev_active>>

\* scrape, from the first family constructor to the end of the histogram loop
Build ==
    /\ pc = "build"
    /\ IF BuildRaises(jobs)
       THEN /\ pc' = "crashed"
            /\ UNCHANGED built
       ELSE /\ pc' = "publish"
            /\ built' = BuildFamilies(jobs, cycle)
    /\ UNCHANGED <<cycle, JOB_CACHE, fetch_failed, jobs, metrics, serving,
                   rd_pc, rd_keys, rd_out, hist>>

\* metrics.update(...) and the return of scrape
Publish ==
    /\ pc = "publish"
    /\ metrics' = Update(metrics, built)
    /\ pc' = IF serving THEN "sleep" ELSE "start_http"
    /\ jobs' = <<>>
    /\ built' = NoFamilies
    /\ fetch_failed' = FALSE
    /\ seen' = NotSeen
    /\ admitted' = {}
    /\ prev_active' = {n \in JobNames : seen[n] = "active"}
    /\ UNCHANGED <<cycle, JOB_CACHE, serving, rd_pc, rd_keys, rd_out>>

\* start_http_server(8000)
StartHttp ==
    /\ pc = "start_http"
    /\ serving' = TRUE
    /\ pc' = "sleep"
    /\ UNCHANGED <<cycle, JOB_CACHE, fetch_failed, jobs, built, metrics,
                   rd_pc, rd_keys, rd_out, hist>>

\* a loop that calls scrape again before the running call has published
WakeEarly(limit) ==
    /\ pc \in {"publish", "sleep"}
    /\ cycle < limit
    /\ cycle' = cycle + 1
    /\ pc' = "scrape"
    /\ UNCHANGED <<JOB_CACHE, fetch_failed, jobs, built, metrics, serving,
                   rd_pc, rd_keys, rd_out, hist>>

\* time.sleep returns and the loop calls scrape again
Wake(limit) ==
    /\ pc = "sleep"
    /\ cycle < limit
    /\ cycle' = cycle + 1
    /\ pc' = "scrape"
    /\ UNCHANGED <<JOB_CACHE, fetch_failed, jobs, built, metrics, serving,
                   rd_pc, rd_keys, rd_out, hist>>

\* a request reaches the server thread: collect() evaluates sorted(metrics)
CollectStart ==
    /\ serving
    /\ pc # "crashed"
    /\ rd_pc = "idle"
    /\ rd_pc' = "iter"
    /\ rd_keys' = Sorted(DOMAIN metrics)
    /\ rd_out' = <<>>
    /\ UNCHANGED <<pc, cycle, JOB_CACHE, fetch_failed, jobs, built, metrics,
                   serving, hist>>

\* collect(): one iteration, yield metrics[key]
CollectYield ==
    /\ pc # "crashed"
    /\ rd_pc = "iter"
    /\ rd_keys # <<>>
    /\ rd_out' = Append(rd_out, metrics[Head(rd_keys)])
    /\ rd_keys' = Tail(rd_keys)
    /\ UNCHANGED <<pc, cycle, JOB_CACHE, fetch_failed, jobs, built, metrics,
                   serving, rd_pc, hist>>

\* collect(): the loop is exhausted and the generator returns
CollectReturn ==
    /\ pc # "crashed"
    /\ rd_pc = "iter"
    /\ rd_keys = <<>>
    /\ rd_pc' = "idle"
    /\ rd_out' = <<>>
    /\ UNCHANGED <<pc, cycle, JOB_CACHE, fetch_failed, jobs, built, metrics,
                   serving, rd_keys, hist>>

Scheduler(names, limit) ==
    \/ \E result \in ApiResults(names) : Fetch(result)
    \/ Build
    \/ Publish
    \/ StartHttp
    \/ Wake(limit)

Expositor == CollectStart \/ CollectYield \/ CollectReturn

\* the whole program, polling a namespace that holds at most one job
Next == Scheduler(ServedNames, MaxCycles) \/ Expositor

Spec == Init /\ [][Next]_vars

\* the main thread while no request arrives, polling a namespace that holds
\* at most two jobs
NextPolls == Scheduler(JobNames, MaxPolls)

SpecPolls == Init /\ [][NextPolls]_vars

(* ------------- the aggregator functions on arbitrary job lists --------- *)

\* job durations in seconds: negative, inside the first bucket, on a bucket
\* boundary, between boundaries, beyond the last boundary
AggDurations == {0 - 5, 5, 10, 45, 400, 8000}

AggNames == <<"j1", "j2", "j3", "j4", "j5">>

\* the labelled, eligible jobs that can stand at position i of the list: one
\* that has not succeeded, or one that has, with both timestamps set
AggRecords(i) ==
    {Job(AggNames[i], START + 1, [k \in {JOB_LABEL} |-> l], None, None,
         <<100, None>>) : l \in {"a", "b"}}
    \cup {Job(AggNames[i], START + 1, [k \in {JOB_LABEL} |-> l], None, 1,
              <<100, 100 + d>>) : l \in {"a", "b"}, d \in AggDurations}

\* scrape is about to build the families from a list of jobs, empty so far
InitAgg ==
    /\ pc = "build"
    /\ cycle = 1
    /\ JOB_CACHE = <<>>
    /\ fetch_failed = FALSE
    /\ jobs = <<>>
    /\ built = NoFamilies
    /\ metrics = NoFamilies
    /\ serving = FALSE
    /\ rd_pc = "idle"
    /\ rd_keys = <<>>
    /\ rd_out = <<>>
    /\ seen = NotSeen
    /\ admitted = {}
    /\ prev_active = {}

\* the list handed to the aggregator functions holds one more job
AggInput ==
    /\ pc = "build"
    /\ Len(jobs) < MaxLen
    /\ \E r \in AggRecords(Len(jobs) + 1) : jobs' = Append(jobs, r)
    /\ UNCHANGED <<pc, cycle, JOB_CACHE, fetch_failed, built, metrics, serving,
                   rd_pc, rd_keys, rd_out, hist>>

NextAgg == AggInput \/ Build

SpecAgg == InitAgg /\ [][NextAgg]_vars

(* ------------------- reading the published families -------------------- *)

LabelValues == {"a", "b"}

RECURSIVE SumSeq(_)
SumSeq(ns) == IF ns = <<>> THEN 0 ELSE Head(ns) + SumSeq(Tail(ns))

\* the value a counter family reports for label value l, 0 when it has no entry
ValueOf(family, l) ==
    SumSeq([i \in 1..Len(family.samples) |->
               IF family.samples[i].labels = <<l>>
               THEN family.samples[i].value ELSE 0])

\* the +Inf bucket count a histogram family reports for l, 0 when no entry
InfCountOf(family, l) ==
    SumSeq([i \in 1..Len(family.samples) |->
               IF family.samples[i].labels = <<l>>
               THEN family.samples[i].buckets[Len(duration_buckets)][2] ELSE 0])

\* the positions of the cached jobs created at or after START with label l
EligibleWith(cache, l) ==
    {i \in 1..Len(cache) :
        cache[i].creation_timestamp >= START /\ cache[i].labels[JOB_LABEL] = l}

\* the families d report, for every label value, the counts of the eligible
\* jobs of the cache
ReportsCache(d, cache) ==
    \A l \in LabelValues :
        /\ ValueOf(d["kubernetes_jobs_total"], l)
               = Cardinality(EligibleWith(cache, l))
        /\ ValueOf(d["kubernetes_job_errors_total"], l)
               = Cardinality({i \in EligibleWith(cache, l) :
                                 cache[i].succeeded # 1})
        /\ InfCountOf(d["kubernetes_job_duration_seconds"], l)
               = Cardinality({i \in EligibleWith(cache, l) :
                                 cache[i].succeeded = 1})

FetchStep == pc = "scrape" /\ pc' = "build"
PublishStep == pc = "publish" /\ pc' # "publish"

(* ------------------------------- claims -------------------------------- *)

\* C1: when a collect() call has yielded its families, all of them were
\* built by the same scrape cycle (the reader sees the fully-old or the
\* fully-new set, never a mix).
C1_ReaderSeesOnePublish ==
    (rd_pc = "iter" /\ rd_keys = <<>>) =>
        \A i, j \in 1..Len(rd_out) : rd_out[i].cycle = rd_out[j].cycle

\* C2: admission is idempotent and the stored record is frozen: no step
\* changes or removes a record already in JOB_CACHE, whatever record the
\* polls fetch under its name, and no name is stored twice.
C2_AdmissionFrozen ==
    [][/\ Len(JOB_CACHE') >= Len(JOB_CACHE)
       /\ \A i \in 1..Len(JOB_CACHE) : JOB_CACHE'[i] = JOB_CACHE[i]
       /\ Cardinality(CacheNames(JOB_CACHE')) = Len(JOB_CACHE')
       /\ FetchStep =>
              Len(JOB_CACHE') = Len(JOB_CACHE) + Cardinality(admitted')]_vars

\* a poll has fetched a cached job again, with a status that differs from
\* the stored one, and the cache has kept the stored record
C2_Witness ==
    /\ pc = "build"
    /\ \E i \in 1..Len(JOB_CACHE) :
           /\ JOB_CACHE[i].name \notin admitted
           /\ JOB_CACHE[i].succeeded # 1
           /\ seen[JOB_CACHE[i].name] \in {"active", "done"}

\* C3: a poll inserts a fetched job iff its name is absent from the cache,
\* its active field is not 1 and it carries the classification label; every
\* stored record has active != 1 and carries the label.
C3_AdmissionRule ==
    [][/\ \A i \in 1..Len(JOB_CACHE') :
              /\ JOB_CACHE'[i].active # 1
              /\ JOB_LABEL \in DOMAIN JOB_CACHE'[i].labels
       /\ FetchStep =>
              \A n \in JobNames :
                  (n \in CacheNames(JOB_CACHE') \ CacheNames(JOB_CACHE))
                      <=> (/\ n \notin CacheNames(JOB_CACHE)
                           /\ seen'[n] \in {"done", "other"})]_vars

\* a job left out on one poll because it was active is inserted by the next
\* poll, while another fetched job is left out
C3_Witness ==
    /\ pc = "build"
    /\ prev_active \cap admitted # {}
    /\ \E n \in JobNames : seen[n] \in {"active", "nolabel"}

\* C4: a poll whose list call fails leaves JOB_CACHE unchanged, goes on to
\* publish, and publishes families with the samples of the previous poll.
C4_FetchFailureKeepsMetrics ==
    [][/\ (FetchStep /\ fetch_failed') => JOB_CACHE' = JOB_CACHE
       /\ (pc = "build" /\ fetch_failed) => pc' # "crashed"
       /\ (PublishStep /\ fetch_failed /\ cycle > 1) =>
              \A k \in MetricNames : metrics'[k].samples = metrics[k].samples]_vars

\* the list call has failed on a later poll, with eligible jobs in the cache,
\* and the cycle has built its families
C4_Witness ==
    /\ pc = "publish"
    /\ fetch_failed
    /\ cycle > 1
    /\ jobs # <<>>
    /\ \E l \in LabelValues : ValueOf(metrics["kubernetes_jobs_total"], l) > 0

\* C5: when a job of the working set has succeeded == 1 but lacks a
\* timestamp, the build step still goes on to publish, and the families it
\* builds count every job in kubernetes_jobs_total and every succeeded job
\* that has both timestamps in the duration histogram.
C5_BadJobOnlySkipped ==
    [][(pc = "build" /\ BuildRaises(jobs)) =>
          /\ pc' = "publish"
          /\ DOMAIN built' = MetricNames
          /\ \A l \in LabelValues :
                 /\ ValueOf(built'["kubernetes_jobs_total"], l)
                        = Cardinality({i \in 1..Len(jobs) :
                                          jobs[i].labels[JOB_LABEL] = l})
                 /\ InfCountOf(built'["kubernetes_job_duration_seconds"], l)
                        = Cardinality({i \in 1..Len(jobs) :
                                          /\ jobs[i].labels[JOB_LABEL] = l
                                          /\ jobs[i].succeeded = 1
                                          /\ jobs[i].start_time # None
                                          /\ jobs[i].completion_time # None})]_vars

\* C6: the scheduler loop never stops: no list result leads the main thread
\* to a state in which it has left the loop.
C6_LoopNeverStops == pc # "crashed"

\* C7: the working set of a cycle is exactly the cached jobs created at or
\* after START, every admissible fetched job is in the cache whatever its
\* creation time, and the published families count, per label, only the
\* cached jobs created at or after START.
C7_EligibilityFilter ==
    /\ pc \in {"build", "publish"} =>
           /\ \A n \in JobNames :
                  seen[n] \in {"done", "other"} => n \in CacheNames(JOB_CACHE)
           /\ jobs = SelectSeq(JOB_CACHE,
                               LAMBDA job : job.creation_timestamp >= START)
    /\ (pc \in {"start_http", "sleep"} \/ (pc = "scrape" /\ cycle > 1)) =>
           ReportsCache(metrics, JOB_CACHE)

\* a succeeded labelled job created before START is cached and left out of
\* the published families, while a job created exactly at START is counted
C7_Witness ==
    /\ pc = "sleep"
    /\ \E i, k \in 1..Len(JOB_CACHE) :
           /\ JOB_CACHE[i].creation_timestamp < START
           /\ JOB_CACHE[i].succeeded = 1
           /\ JOB_CACHE[k].creation_timestamp = START
           /\ JOB_CACHE[k].labels = JOB_CACHE[i].labels
           /\ ValueOf(metrics["kubernetes_jobs_total"],
                      JOB_CACHE[i].labels[JOB_LABEL]) = 1

\* the families d count the cached job named n in kubernetes_jobs_total and
\* in the duration histogram
CountedIn(d, cache, n) ==
    /\ n \in CacheNames(cache)
    /\ LET r == CacheGet(cache, n)
           l == r.labels[JOB_LABEL]
       IN /\ r.creation_timestamp >= START
          /\ r.succeeded = 1
          /\ ValueOf(d["kubernetes_jobs_total"], l)
                 = Cardinality(EligibleWith(cache, l))
          /\ InfCountOf(d["kubernetes_job_duration_seconds"], l)
                 = Cardinality({i \in EligibleWith(cache, l) :
                                   cache[i].succeeded = 1})

\* C8 as stated: a labelled job created at or after START that one poll
\* fetched with active == 1 and the next poll fetches with active != 1 and
\* succeeded == 1 was absent from the families the first poll published (it
\* is admitted only now, or its cached record is not eligible) and is counted
\* in the total and the histogram the second poll publishes.
C8_ActiveThenSucceeded ==
    [][PublishStep =>
          \A n \in prev_active :
              seen[n] = "done" =>
                  /\ n \in admitted
                     \/ CacheGet(JOB_CACHE, n).creation_timestamp < START
                  /\ CountedIn(metrics', JOB_CACHE, n)]_vars

\* C8 amended: a job fetched with active == 1 while its name is not in
\* JOB_CACHE stays out of the cache on that poll; when the next poll fetches
\* it labelled, created at or after START, with active != 1 and
\* succeeded == 1, the families that poll publishes count it in the total
\* and in the histogram.
C8_SkippedThenSucceeded ==
    [][/\ FetchStep =>
              \A n \in JobNames :
                  (seen'[n] = "active" /\ n \notin CacheNames(JOB_CACHE))
                      => n \notin CacheNames(JOB_CACHE')
       /\ PublishStep =>
              \A n \in prev_active \cap admitted :
                  seen[n] = "done" => CountedIn(metrics', JOB_CACHE, n)]_vars

\* a job skipped as active on the previous poll has been fetched as succeeded
\* and admitted on this poll, and the families built count it
C8_Witness ==
    /\ pc = "publish"
    /\ \E n \in prev_active \cap admitted :
           /\ seen[n] = "done"
           /\ CountedIn(built, JOB_CACHE, n)

\* C9: kubernetes_jobs_total yields one entry per distinct label value of
\* its input list, each count is at least 1 and is the number of jobs with
\* that label value, and the counts sum to the length of the list.
C9_CountsByLabel ==
    pc = "publish" =>
        LET out == built["kubernetes_jobs_total"].samples
        IN /\ \A i, j \in 1..Len(out) :
                  i # j => out[i].labels # out[j].labels
           /\ {out[i].labels : i \in 1..Len(out)}
                  = {<<jobs[k].labels[JOB_LABEL]>> : k \in 1..Len(jobs)}
           /\ \A i \in 1..Len(out) :
                  /\ out[i].value >= 1
                  /\ out[i].value
                         = Cardinality({k \in 1..Len(jobs) :
                               <<jobs[k].labels[JOB_LABEL]>> = out[i].labels})
           /\ SumSeq([i \in 1..Len(out) |-> out[i].value]) = Len(jobs)

\* a list of three jobs over both label values has been counted
C9_Witness ==
    /\ pc = "publish"
    /\ Len(jobs) = 3
    /\ Len(built["kubernetes_jobs_total"].samples) = 2

\* C10: the buckets emitted for a label are in the order 10, 30, 60, 180,
\* 480, 1200, 3600, 7200, +Inf, their counts never decrease along that order,
\* and the +Inf count is the number of jobs fed in for that label.
C10_CumulativeBuckets ==
    pc = "publish" =>
        LET out == built["kubernetes_job_duration_seconds"].samples
        IN \A s \in 1..Len(out) :
               /\ [i \in 1..Len(out[s].buckets) |-> out[s].buckets[i][1]]
                      = <<"10", "30", "60", "180", "480", "1200", "3600",
                          "7200", "+Inf">>
               /\ \A i \in 1..8 :
                      out[s].buckets[i][2] <= out[s].buckets[i + 1][2]
               /\ out[s].buckets[9][2]
                      = Cardinality({k \in 1..Len(jobs) :
                            /\ jobs[k].succeeded = 1
                            /\ <<jobs[k].labels[JOB_LABEL]>> = out[s].labels})

\* a histogram has been built for a label with three succeeded jobs whose
\* durations fall in different buckets
C10_Witness ==
    /\ pc = "publish"
    /\ \E s \in 1..Len(built["kubernetes_job_duration_seconds"].samples) :
           LET b == built["kubernetes_job_duration_seconds"].samples[s].buckets
           IN b[1][2] = 1 /\ b[3][2] = 2 /\ b[9][2] = 3

\* the jobs of the list handed to the histogram, by position, that have
\* succeeded and carry the label values labels
GroupOf(js, labels) ==
    {k \in 1..Len(js) :
        js[k].succeeded = 1 /\ <<js[k].labels[JOB_LABEL]>> = labels}

\* C11: for every label group and every boundary b of DURATION_BUCKETS the
\* count emitted for b is the number of jobs of the group whose duration is
\* strictly less than b, so a duration equal to b is not counted in b.
C11_StrictLessThan ==
    pc = "publish" =>
        LET out == built["kubernetes_job_duration_seconds"].samples
        IN \A s \in 1..Len(out) :
               \A i \in 1..Len(DURATION_BUCKETS) :
                   /\ out[s].buckets[i][1] = BucketStrings[i]
                   /\ out[s].buckets[i][2]
                          = Cardinality({k \in GroupOf(jobs, out[s].labels) :
                                Duration(jobs[k]) < DURATION_BUCKETS[i]})

\* a histogram has been built for a group whose durations are 5, 10 and 45:
\* the job of exactly 10 seconds is left out of bucket 10 and counted from 30
C11_Witness ==
    /\ pc = "publish"
    /\ \E s \in 1..Len(built["kubernetes_job_duration_seconds"].samples) :
           LET smp == built["kubernetes_job_duration_seconds"].samples[s]
           IN /\ {Duration(jobs[k]) : k \in GroupOf(jobs, smp.labels)}
                     = {5, 10, 45}
              /\ smp.buckets[1][2] = 1
              /\ smp.buckets[2][2] = 2
              /\ smp.buckets[3][2] = 3

\* the sum a histogram family reports for label value l, 0 when no entry
SumOf(family, l) ==
    SumSeq([i \in 1..Len(family.samples) |->
               IF family.samples[i].labels = <<l>>
               THEN family.samples[i].sum ELSE 0])

\* the main thread is between a publish and the next list call
Published ==
    pc \in {"start_http", "sleep"} \/ (pc = "scrape" /\ cycle > 1)

\* C12: in the published kubernetes_job_duration_seconds family the sum of a
\* label value is the sum of completion_time - start_time over the cached
\* jobs created at or after START with that label and succeeded == 1; other
\* jobs add nothing to it.
C12_DurationSum ==
    Published =>
        \A l \in LabelValues :
            SumOf(metrics["kubernetes_job_duration_seconds"], l)
                = SumSeq([i \in 1..Len(JOB_CACHE) |->
                             IF /\ i \in EligibleWith(JOB_CACHE, l)
                                /\ JOB_CACHE[i].succeeded = 1
                             THEN JOB_CACHE[i].completion_time
                                      - JOB_CACHE[i].start_time
                             ELSE 0])

\* the second poll has published, for a label with two succeeded cached jobs,
\* the sum of both durations
C12_Witness ==
    /\ pc = "sleep"
    /\ cycle = 2
    /\ \E l \in LabelValues :
           /\ SumOf(metrics["kubernetes_job_duration_seconds"], l) = 10
           /\ Cardinality(EligibleWith(JOB_CACHE, l)) = 2

\* C13: the first scrape cycle has published before the endpoint serves: in
\* every state in which the endpoint is serving the published dict holds all
\* three families, and every collect() call works on all three keys.
C13_FirstScrapeBeforeServing ==
    /\ serving => DOMAIN metrics = MetricNames
    /\ pc = "start_http" => (cycle = 1 /\ DOMAIN metrics = MetricNames)
    /\ rd_pc = "iter" =>
           /\ serving
           /\ Len(rd_out) + Len(rd_keys) = Cardinality(MetricNames)
           /\ {rd_out[i].name : i \in 1..Len(rd_out)}
                  \cup {rd_keys[i] : i \in 1..Len(rd_keys)} = MetricNames

\* a request that arrived before the second scrape has been answered with
\* the three families of the first cycle
C13_Witness ==
    /\ serving
    /\ cycle = 1
    /\ rd_pc = "iter"
    /\ rd_keys = <<>>
    /\ {rd_out[i].name : i \in 1..Len(rd_out)} = MetricNames
    /\ \A i \in 1..Len(rd_out) : rd_out[i].cycle = 1

\* C14: after every publish the keys of the published dict are exactly the
\* three metric names and each value is the family built by this cycle; no
\* family object of an earlier cycle is left in it.
C14_PublishReplacesAll ==
    [][PublishStep =>
          /\ DOMAIN metrics' = MetricNames
          /\ \A k \in MetricNames :
                 /\ metrics'[k] = built[k]
                 /\ metrics'[k].name = k
                 /\ metrics'[k].cycle = cycle]_vars

\* a later cycle has published over the families of the cycle before it
C14_Witness ==
    /\ pc = "sleep"
    /\ cycle = 2
    /\ DOMAIN metrics = MetricNames
    /\ \A k \in MetricNames : metrics[k].cycle = 2

\* C15: no step removes a name from JOB_CACHE, and every publish after the
\* first reports, for every label value, a kubernetes_jobs_total that is at
\* least the value published before it, whatever the poll fetched.
C15_CacheAndTotalsGrow ==
    [][/\ CacheNames(JOB_CACHE) \subseteq CacheNames(JOB_CACHE')
       /\ (PublishStep /\ cycle > 1) =>
              \A l \in LabelValues :
                  ValueOf(metrics'["kubernetes_jobs_total"], l)
                      >= ValueOf(metrics["kubernetes_jobs_total"], l)]_vars

\* the second poll did not fetch a job that the first poll cached and
\* published, fetched and admitted another one, and still counts the first
C15_Witness ==
    /\ pc = "publish"
    /\ cycle = 2
    /\ admitted # {}
    /\ \E i \in 1..Len(JOB_CACHE) :
           LET l == JOB_CACHE[i].labels[JOB_LABEL]
           IN /\ seen[JOB_CACHE[i].name] = "absent"
              /\ i \in EligibleWith(JOB_CACHE, l)
              /\ ValueOf(metrics["kubernetes_jobs_total"], l) = 1
              /\ ValueOf(built["kubernetes_jobs_total"], l) >= 1

\* C16: a succeeded job whose completion_time is earlier than its start_time
\* is skipped: the bucket counts and the sum emitted for its label are those
\* of the group's jobs with a duration of at least 0.
C16_NegativeDurationSkipped ==
    pc = "publish" =>
        LET out == built["kubernetes_job_duration_seconds"].samples
        IN \A s \in 1..Len(out) :
               LET valid == {k \in GroupOf(jobs, out[s].labels) :
                                Duration(jobs[k]) >= 0}
               IN /\ \A i \in 1..Len(duration_buckets) :
                         out[s].buckets[i][2]
                             = Cardinality({k \in valid :
                                   LessThanFloat(Duration(jobs[k]),
                                                 duration_buckets[i])})
                  /\ out[s].sum
                         = SumSeq([k \in 1..Len(jobs) |->
                                      IF k \in valid THEN Duration(jobs[k])
                                      ELSE 0])

\* the variables of the main thread and of a collect() call
scrape_vars == <<pc, cycle, JOB_CACHE, fetch_failed, jobs, built, metrics,
                 serving, hist>>
collect_vars == <<rd_pc, rd_keys, rd_out>>

\* C17: a scrape cycle starts only from the sleep that follows the publish
\* of the cycle before it, so at most one cycle is in progress; JOB_CACHE is
\* changed only by the fetch step of a cycle; and a step of collect() leaves
\* JOB_CACHE, the published dict and the main thread as they are.
C17_NoOverlapReaderReadOnly ==
    [][/\ cycle' # cycle =>
              /\ cycle' = cycle + 1
              /\ pc = "sleep" /\ pc' = "scrape"
              /\ jobs = <<>> /\ built = NoFamilies
              /\ \A k \in MetricNames : metrics[k].cycle = cycle
       /\ JOB_CACHE' # JOB_CACHE => (FetchStep /\ collect_vars' = collect_vars)
       /\ collect_vars' # collect_vars => scrape_vars' = scrape_vars]_vars

\* a collect() call is iterating while the second cycle, which has admitted
\* a job, is between its fetch and its publish
C17_Witness ==
    /\ rd_pc = "iter"
    /\ Len(rd_out) = 1
    /\ pc = "build"
    /\ cycle = 2
    /\ admitted # {}

\* C18: in the three families built by one cycle, for every label value the
\* kubernetes_jobs_total count is the kubernetes_job_errors_total count plus
\* the +Inf bucket count of kubernetes_job_duration_seconds, a missing entry
\* counting as 0.
C18_TotalIsErrorsPlusSucceeded ==
    pc = "publish" =>
        \A l \in LabelValues :
            ValueOf(built["kubernetes_jobs_total"], l)
                = ValueOf(built["kubernetes_job_errors_total"], l)
                      + InfCountOf(built["kubernetes_job_duration_seconds"], l)

\* a cycle has built its families from a label with one job that has not
\* succeeded and two that have, and from a label with no errors entry
C18_Witness ==
    /\ pc = "publish"
    /\ \E l, m \in LabelValues :
           /\ ValueOf(built["kubernetes_jobs_total"], l) = 3
           /\ ValueOf(built["kubernetes_job_errors_total"], l) = 1
           /\ InfCountOf(built["kubernetes_job_duration_seconds"], l) = 2
           /\ \A i \in 1..Len(built["kubernetes_job_errors_total"].samples) :
                  built["kubernetes_job_errors_total"].samples[i].labels # <<m>>

\* the cached jobs, by position, created at or after START that were stored
\* with succeeded != 1
StoredAsError(cache) ==
    {i \in 1..Len(cache) :
        cache[i].creation_timestamp >= START /\ cache[i].succeeded # 1}

\* C19: a job's classification is fixed at its first admission: a record
\* stored with succeeded != 1 is never replaced, and every publish, that of
\* the admitting poll and those of all later polls, counts it in
\* kubernetes_job_errors_total and leaves it out of the duration histogram,
\* whatever status the polls fetch under its name.
C19_ClassificationFrozen ==
    [][/\ \A i \in StoredAsError(JOB_CACHE) :
              /\ i \in StoredAsError(JOB_CACHE')
              /\ JOB_CACHE'[i] = JOB_CACHE[i]
       /\ PublishStep =>
              \A i \in StoredAsError(JOB_CACHE) :
                  LET l == JOB_CACHE[i].labels[JOB_LABEL]
                      same == EligibleWith(JOB_CACHE, l)
                  IN /\ ValueOf(metrics'["kubernetes_job_errors_total"], l)
                            = Cardinality(same \cap StoredAsError(JOB_CACHE))
                     /\ InfCountOf(metrics'["kubernetes_job_duration_seconds"], l)
                            = Cardinality(same \ StoredAsError(JOB_CACHE))]_vars

\* a job stored by an earlier poll with succeeded != 1 has now been fetched
\* with succeeded == 1, and the families built count it as an error and have
\* no histogram entry for it
C19_Witness ==
    /\ pc = "publish"
    /\ cycle > 1
    /\ \E i \in StoredAsError(JOB_CACHE) :
           /\ JOB_CACHE[i].name \notin admitted
           /\ seen[JOB_CACHE[i].name] = "done"
           /\ ValueOf(built["kubernetes_job_errors_total"],
                      JOB_CACHE[i].labels[JOB_LABEL]) = 1
           /\ built["kubernetes_job_duration_seconds"].samples = <<>>

====
